---- MODULE Spec2Model ----
(***************************************************************************)
(* A model of the two pipelines of the repository:                         *)
(*   code/qc_summary.py        MRIQCAnalyzer (QC loading, summaries,       *)
(*                             exclusion list)                             *)
(*   code/example_analysis.py  PostPreprocessingAnalysis (input location,  *)
(*                             confound selection, cleaning, ROI           *)
(*                             reduction, connectivity, artifact writing)  *)
(*                                                                         *)
(* Units.  Framewise displacement is held in hundredths of a millimetre    *)
(* (0.9 mm is 90); tSNR and SNR are held in whole units.  A Python dict is *)
(* a function whose DOMAIN is its key set; dict.get is Get.  A value that  *)
(* may be None is a record: None, or Some(x).                              *)
(***************************************************************************)
EXTENDS Integers, Sequences, FiniteSets, TLC

VARIABLES
    \* ---- qc_summary.py ----
    mriqc_dir,      \* the tree under <derivatives>/mriqc: exists, bold_files, t1w_files
    qc_pc,          \* position of the caller in MRIQCAnalyzer.run
    bold_df,        \* bold_df of run: None or Some(rows)
    t1w_df,         \* t1w_df of run: None or Some(rows)
    exclusions,     \* the list create_exclusion_list returned
    output_dir,     \* qc_reports/: file name -> content
    qc_written,     \* names of the files written since construction
    qc_console,     \* messages printed
    \* ---- example_analysis.py ----
    fs,             \* derivatives/fmriprep: exists, and the func/ files of the subject
    an_pc,          \* position of main
    self,           \* the PostPreprocessingAnalysis object: its three paths
    run,            \* bold_img and the locals of run_complete_analysis
    call,           \* the direct call made on the object, if any: its arguments and result
    analysis_outputs,   \* analysis_outputs/: file name -> content
    attempted,      \* the artifact writes save_results attempted, in order
    an_console,     \* messages printed
    outcome         \* how main ended

qc_vars == <<mriqc_dir, qc_pc, bold_df, t1w_df, exclusions, output_dir,
             qc_written, qc_console>>

an_vars == <<fs, an_pc, self, run, call, analysis_outputs, attempted,
             an_console, outcome>>

vars == <<qc_vars, an_vars>>

(***************************************************************************)
(* Python values                                                           *)
(***************************************************************************)
None == [some |-> FALSE]

Some(x) == [some |-> TRUE, val |-> x]

\* np.nan: every metric of the files is non-negative, so -1 is free to stand
\* for it; the comparisons below never read it as a number.
NaN == -1

EmptyDict == <<>>

Get(d, k, default) == IF k \in DOMAIN d THEN d[k] ELSE default

\* float comparisons as pandas evaluates them: any comparison with NaN is False
gt(x, y) == x # NaN /\ y # NaN /\ x > y

\* the comparison if the sentinel were an ordinary number below every threshold
lt_sentinel_as_number(x, y) == x < y

lt(x, y) == x # NaN /\ y # NaN /\ x < y

le(x, y) == x # NaN /\ y # NaN /\ x <= y

Range(s) == {s[i] : i \in 1..Len(s)}

\* df[mask]: the positions of the rows whose entry of the boolean mask is
\* True, in row order
Rows(mask) == SelectSeq([i \in 1..Len(mask) |-> i], LAMBDA i : mask[i])

\* pathlib's write of a file into a directory
WriteFile(dir, name, content) ==
    [n \in DOMAIN dir \cup {name} |-> IF n = name THEN content ELSE dir[n]]

(***************************************************************************)
(* The state of the pipeline that is not running                           *)
(***************************************************************************)
NoLocals ==
    [bold_img |-> None, confounds |-> None, available_confounds |-> <<>>,
     cleaned_img |-> None, timeseries |-> None, labels |-> None,
     connectivity_matrix |-> None]

NoError == [type |-> "", text |-> "", dir |-> <<>>]

NoOutcome == [kind |-> "none", error |-> NoError]

NoSelf == [bold_file |-> None, confounds_file |-> None, mask_file |-> None]

AnalysisIdle ==
    /\ fs = [exists |-> FALSE, bold |-> {}, confounds |-> {}, mask |-> {}, tables |-> <<>>]
    /\ an_pc = "idle"
    /\ self = NoSelf
    /\ run = NoLocals
    /\ call = None
    /\ analysis_outputs = EmptyDict
    /\ attempted = <<>>
    /\ an_console = <<>>
    /\ outcome = NoOutcome

QCIdle ==
    /\ mriqc_dir = [exists |-> FALSE, bold_files |-> <<>>, t1w_files |-> <<>>]
    /\ qc_pc = "idle"
    /\ bold_df = None
    /\ t1w_df = None
    /\ exclusions = <<>>
    /\ output_dir = EmptyDict
    /\ qc_written = {}
    /\ qc_console = <<>>

(***************************************************************************)
(* qc_summary.py: the QC metric loaders                                    *)
(***************************************************************************)
\* Path.glob under mriqc_dir: nothing when the directory does not exist
glob(dir, pattern) == IF dir.exists THEN dir[pattern] ELSE <<>>

\* the metrics dict built from one *_bold.json (data = json.load(f))
bold_metrics(data) ==
    [subject_id |-> Get(Get(data, "bids_meta", EmptyDict), "subject_id", "unknown"),
     session_id |-> Get(Get(data, "bids_meta", EmptyDict), "session_id", "unknown"),
     task       |-> Get(Get(data, "bids_meta", EmptyDict), "task_id", "unknown"),
     fd_mean    |-> Get(data, "fd_mean", NaN),
     fd_num     |-> Get(data, "fd_num", NaN),
     fd_perc    |-> Get(data, "fd_perc", NaN),
     snr        |-> Get(data, "snr", NaN),
     tsnr       |-> Get(data, "tsnr", NaN),
     gcor       |-> Get(data, "gcor", NaN),
     dvars_std  |-> Get(data, "dvars_std", NaN),
     dvars_nstd |-> Get(data, "dvars_nstd", NaN),
     aor        |-> Get(data, "aor", NaN),
     aqi        |-> Get(data, "aqi", NaN)]

\* t1w_metrics with 0 for an absent cnr
t1w_metrics_zero_default(data) ==
    [subject_id |-> Get(Get(data, "bids_meta", EmptyDict), "subject_id", "unknown"),
     session_id |-> Get(Get(data, "bids_meta", EmptyDict), "session_id", "unknown"),
     snr        |-> Get(data, "snr_total", NaN),
     cnr        |-> Get(data, "cnr", 0),
     fber       |-> Get(data, "fber", NaN),
     efc        |-> Get(data, "efc", NaN),
     qi_1       |-> Get(data, "qi_1", NaN),
     qi_2       |-> Get(data, "qi_2", NaN),
     cjv        |-> Get(data, "cjv", NaN),
     wm2max     |-> Get(data, "wm2max", NaN)]

\* the metrics dict built from one *_T1w.json
t1w_metrics(data) ==
    [subject_id |-> Get(Get(data, "bids_meta", EmptyDict), "subject_id", "unknown"),
     session_id |-> Get(Get(data, "bids_meta", EmptyDict), "session_id", "unknown"),
     snr        |-> Get(data, "snr_total", NaN),
     cnr        |-> Get(data, "cnr", NaN),
     fber       |-> Get(data, "fber", NaN),
     efc        |-> Get(data, "efc", NaN),
     qi_1       |-> Get(data, "qi_1", NaN),
     qi_2       |-> Get(data, "qi_2", NaN),
     cjv        |-> Get(data, "cjv", NaN),
     wm2max     |-> Get(data, "wm2max", NaN)]

\* the value load_bold_metrics returns: None, or the frame with one row per file
load_bold_metrics(dir) ==
    LET bold_files == glob(dir, "bold_files")
    IN  IF bold_files = <<>> THEN None
        ELSE Some([i \in 1..Len(bold_files) |-> bold_metrics(bold_files[i])])

load_t1w_metrics(dir) ==
    LET t1w_files == glob(dir, "t1w_files")
    IN  IF t1w_files = <<>> THEN None
        ELSE Some([i \in 1..Len(t1w_files) |-> t1w_metrics(t1w_files[i])])

\* what the two loaders print
load_warnings(dir) ==
    (IF glob(dir, "bold_files") = <<>>
        THEN <<"WARNING: No BOLD quality metrics found">> ELSE <<>>)
    \o (IF glob(dir, "t1w_files") = <<>>
        THEN <<"WARNING: No T1w quality metrics found">> ELSE <<>>)

(***************************************************************************)
(* qc_summary.py: create_exclusion_list                                    *)
(***************************************************************************)
\* thresholds of the exclusion rules
FD_HIGH == 90

FD_MODERATE == 50

TSNR_LOW == 40

SNR_LOW == 8

\* exclusions.append({...}) for the rows at positions idx of df.  The reason
\* string is held as its text and the value formatted into it; row is the
\* position of the record in its frame (the index iterrows yields).
entries(df, idx, text, metric, severity) ==
    [i \in 1..Len(idx) |->
        [subject_id |-> df[idx[i]].subject_id,
         session_id |-> df[idx[i]].session_id,
         reason     |-> [text |-> text, value |-> df[idx[i]][metric]],
         severity   |-> severity,
         row        |-> idx[i]]]

high_motion(df) == Rows([i \in 1..Len(df) |-> gt(df[i].fd_mean, FD_HIGH)])

\* mod_motion without its upper limit
mod_motion_unbounded(df) ==
    Rows([i \in 1..Len(df) |-> gt(df[i].fd_mean, FD_MODERATE)])

mod_motion(df) ==
    Rows([i \in 1..Len(df) |->
            gt(df[i].fd_mean, FD_MODERATE) /\ le(df[i].fd_mean, FD_HIGH)])

low_tsnr(df) == Rows([i \in 1..Len(df) |-> lt(df[i].tsnr, TSNR_LOW)])

low_snr(df) == Rows([i \in 1..Len(df) |-> lt(df[i].snr, SNR_LOW)])

\* the functional rules with the tSNR rule evaluated first
bold_exclusions_tsnr_first(df) ==
    entries(df, low_tsnr(df), "Low tSNR", "tsnr", "moderate")
    \o entries(df, high_motion(df), "High motion", "fd_mean", "high")
    \o entries(df, mod_motion(df), "Moderate motion", "fd_mean", "moderate")

\* the entries of the three functional rules, in the order they are appended
bold_exclusions(df) ==
    entries(df, high_motion(df), "High motion", "fd_mean", "high")
    \o entries(df, mod_motion(df), "Moderate motion", "fd_mean", "moderate")
    \o entries(df, low_tsnr(df), "Low tSNR", "tsnr", "moderate")

t1w_exclusions(df) ==
    entries(df, low_snr(df), "Very low SNR", "snr", "high")

\* the list create_exclusion_list(bold_df, t1w_df) builds and returns
exclusion_entries(b, t) ==
    (IF b # None THEN bold_exclusions(b.val) ELSE <<>>)
    \o (IF t # None THEN t1w_exclusions(t.val) ELSE <<>>)

\* the file written whatever the list holds
writes_exclusion_file_always(excl) == TRUE

\* whether create_exclusion_list writes suggested_exclusions.csv
writes_exclusion_file(excl) == excl # <<>>

\* the effect of create_exclusion_list on qc_reports/
exclusion_output(dir, excl) ==
    IF writes_exclusion_file(excl)
        THEN WriteFile(dir, "suggested_exclusions.csv", excl)
        ELSE dir

exclusion_message(excl) ==
    IF writes_exclusion_file(excl)
        THEN <<"SUGGESTED EXCLUSIONS">>
        ELSE <<"No subjects flagged for exclusion based on QC metrics">>

(***************************************************************************)
(* qc_summary.py: the summaries                                            *)
(***************************************************************************)
\* thresholds of the flags the summaries print (EFC in hundredths)
SUMMARY_FD == 50

SUMMARY_TSNR == 50

SUMMARY_SNR == 10

SUMMARY_EFC == 50

\* what generate_bold_summary prints
bold_flags(df) ==
    <<"BOLD QUALITY METRICS SUMMARY">>
    \o (IF Rows([i \in 1..Len(df) |-> gt(df[i].fd_mean, SUMMARY_FD)]) # <<>>
        THEN <<"High motion detected">> ELSE <<>>)
    \o (IF Rows([i \in 1..Len(df) |-> lt(df[i].tsnr, SUMMARY_TSNR)]) # <<>>
        THEN <<"Low temporal SNR detected">> ELSE <<>>)

\* what generate_t1w_summary prints
t1w_flags(df) ==
    <<"T1W QUALITY METRICS SUMMARY">>
    \o (IF Rows([i \in 1..Len(df) |-> lt(df[i].snr, SUMMARY_SNR)]) # <<>>
        THEN <<"Low SNR detected">> ELSE <<>>)
    \o (IF Rows([i \in 1..Len(df) |-> gt(df[i].efc, SUMMARY_EFC)]) # <<>>
        THEN <<"High entropy (non-uniformity) detected">> ELSE <<>>)

\* the early return taken when either modality is missing
no_metrics_either(b, t) == b = None \/ t = None

\* run's test for its early return
no_metrics(b, t) == b = None /\ t = None

(***************************************************************************)
(* qc_summary.py: MRIQCAnalyzer.run, one action per call it makes, and a   *)
(* direct call of create_exclusion_list                                    *)
(***************************************************************************)
RunLoad ==
    /\ qc_pc = "run"
    /\ bold_df' = load_bold_metrics(mriqc_dir)
    /\ t1w_df' = load_t1w_metrics(mriqc_dir)
    /\ qc_console' = qc_console \o load_warnings(mriqc_dir)
    /\ qc_pc' = "loaded"
    /\ UNCHANGED <<mriqc_dir, exclusions, output_dir, qc_written, an_vars>>

RunNoMetrics ==
    /\ qc_pc = "loaded"
    /\ no_metrics(bold_df, t1w_df)
    /\ qc_console' = qc_console \o <<"ERROR: No quality metrics found!">>
    /\ qc_pc' = "returned"
    /\ UNCHANGED <<mriqc_dir, bold_df, t1w_df, exclusions, output_dir, qc_written, an_vars>>

RunBoldSummary ==
    /\ qc_pc = "loaded"
    /\ ~no_metrics(bold_df, t1w_df)
    /\ IF bold_df # None
          THEN /\ output_dir' = WriteFile(output_dir, "bold_qc_summary.csv", bold_df.val)
               /\ qc_written' = qc_written \cup {"bold_qc_summary.csv"}
               /\ qc_console' = qc_console \o bold_flags(bold_df.val)
          ELSE UNCHANGED <<output_dir, qc_written, qc_console>>
    /\ qc_pc' = "bold_done"
    /\ UNCHANGED <<mriqc_dir, bold_df, t1w_df, exclusions, an_vars>>

RunT1wSummary ==
    /\ qc_pc = "bold_done"
    /\ IF t1w_df # None
          THEN /\ output_dir' = WriteFile(output_dir, "t1w_qc_summary.csv", t1w_df.val)
               /\ qc_written' = qc_written \cup {"t1w_qc_summary.csv"}
               /\ qc_console' = qc_console \o t1w_flags(t1w_df.val)
          ELSE UNCHANGED <<output_dir, qc_written, qc_console>>
    /\ qc_pc' = "t1w_done"
    /\ UNCHANGED <<mriqc_dir, bold_df, t1w_df, exclusions, an_vars>>

\* create_exclusion_list(b, t) as a whole: the list, the file, the messages
create_exclusion_list(b, t) ==
    /\ exclusions' = exclusion_entries(b, t)
    /\ output_dir' = exclusion_output(output_dir, exclusions')
    /\ qc_written' = IF writes_exclusion_file(exclusions')
                        THEN qc_written \cup {"suggested_exclusions.csv"}
                        ELSE qc_written
    /\ qc_console' = qc_console \o exclusion_message(exclusions')

RunExclusions ==
    /\ qc_pc = "t1w_done"
    /\ create_exclusion_list(bold_df, t1w_df)
    /\ qc_pc' = "complete"
    /\ UNCHANGED <<mriqc_dir, bold_df, t1w_df, an_vars>>

\* a caller other than run: create_exclusion_list on what the loaders return,
\* or on None for a modality it leaves out
CallCreateExclusionList ==
    /\ qc_pc = "run"
    /\ \E b \in {None, load_bold_metrics(mriqc_dir)},
          t \in {None, load_t1w_metrics(mriqc_dir)} :
            /\ bold_df' = b
            /\ t1w_df' = t
            /\ create_exclusion_list(b, t)
    /\ qc_pc' = "called"
    /\ UNCHANGED <<mriqc_dir, an_vars>>

QCNext ==
    \/ RunLoad
    \/ RunNoMetrics
    \/ RunBoldSummary
    \/ RunT1wSummary
    \/ RunExclusions
    \/ CallCreateExclusionList

(***************************************************************************)
(* The metric files of the exclusion rules                                 *)
(***************************************************************************)
\* the most *_bold.json and *_T1w.json files in the tree
MaxBold == 2

MaxT1w == 1

SeqUpTo(S, n) == UNION {[1..k -> S] : k \in 0..n}

\* {key: value}, or {} when the file lacks the key
Key(k, v) == IF v = None THEN EmptyDict ELSE (k :> v.val)

\* functional files: FD below, on and above both motion thresholds, tSNR
\* below, on and above its threshold, either key possibly absent
BoldJson ==
    {Key("fd_mean", fd) @@ Key("tsnr", ts) :
        fd \in {None, Some(30), Some(50), Some(90), Some(95)},
        ts \in {None, Some(35), Some(40), Some(60)}}

\* anatomical files: snr_total below and on the threshold, or absent, and a
\* file that holds a key named snr instead
T1wJson ==
    {Key("snr_total", s) : s \in {None, Some(7), Some(8)}}
    \cup {Key("snr", Some(5))}

\* a suggested_exclusions.csv left in qc_reports/ by an earlier run
StaleDir ==
    "suggested_exclusions.csv" :>
        <<[subject_id |-> "old", session_id |-> "old",
           reason |-> [text |-> "High motion", value |-> 99],
           severity |-> "high", row |-> 1]>>

\* MRIQCAnalyzer(derivatives_dir): qc_reports/ exists, nothing loaded yet
QCInitWith(Bold, nb, T1w, nt) ==
    /\ \E exists \in BOOLEAN :
        \E bf \in SeqUpTo(Bold, nb), tf \in SeqUpTo(T1w, nt) :
            /\ (~exists => bf = <<>> /\ tf = <<>>)
            /\ mriqc_dir = [exists |-> exists, bold_files |-> bf, t1w_files |-> tf]
    /\ qc_pc = "run"
    /\ bold_df = None
    /\ t1w_df = None
    /\ exclusions = <<>>
    /\ output_dir \in {EmptyDict, StaleDir}
    /\ qc_written = {}
    /\ qc_console = <<>>
    /\ AnalysisIdle

QCInit == QCInitWith(BoldJson, MaxBold, T1wJson, MaxT1w)

QCSpec == QCInit /\ [][QCNext]_vars

(***************************************************************************)
(* Metric files for the loaders: every enumerated key present or absent,   *)
(* keys the loaders do not know, bids_meta whole, partial or absent        *)
(***************************************************************************)
\* the most files of one modality in a tree of the files below
MaxLoad == 1

BoldKeys == <<"fd_mean", "fd_num", "fd_perc", "snr", "tsnr", "gcor",
              "dvars_std", "dvars_nstd", "aor", "aqi">>

T1wKeys == <<"snr", "cnr", "fber", "efc", "qi_1", "qi_2", "cjv", "wm2max">>

\* the keys an anatomical file may hold: the enumerated ones and snr_total
T1wFileKeys == T1wKeys \o <<"snr_total">>

\* a file holding the keys ks of keys, each with a value of its own (0, 1, ...)
JsonOf(keys, ks) ==
    [k \in ks |-> (CHOOSE i \in 1..Len(keys) : keys[i] = k) - 1]

MetaJson ==
    {"bids_meta" :> EmptyDict,
     "bids_meta" :> ("subject_id" :> "01"),
     "bids_meta" :> [subject_id |-> "02", session_id |-> "01", task_id |-> "rest"]}

KeySets(keys) ==
    {Range(keys), {}} \cup {Range(keys) \ {k} : k \in Range(keys)}

LoaderBoldJson ==
    {JsonOf(BoldKeys, ks) @@ u : ks \in KeySets(BoldKeys),
                                 u \in {EmptyDict, "fd_max" :> 77}}
    \cup {JsonOf(BoldKeys, Range(BoldKeys)) @@ m : m \in MetaJson}

LoaderT1wJson ==
    {JsonOf(T1wFileKeys, ks) : ks \in KeySets(T1wFileKeys) \cup {{"snr"}, {"snr_total"}}}
    \cup {JsonOf(T1wFileKeys, Range(T1wFileKeys)) @@ m : m \in MetaJson}

LoaderInit == QCInitWith(LoaderBoldJson, MaxLoad, LoaderT1wJson, MaxLoad)

LoaderSpec == LoaderInit /\ [][QCNext]_vars

(***************************************************************************)
(* Properties of the QC pipeline                                           *)
(***************************************************************************)
\* create_exclusion_list has returned (from run, or from a direct call)
ExclusionsReturned == qc_pc \in {"complete", "called"}

BoldRules == {"High motion", "Moderate motion", "Low tSNR"}

\* the positions in exclusions of the entries of rule text for row i
EntriesOf(text, i) ==
    {k \in 1..Len(exclusions) :
        exclusions[k].reason.text = text /\ exclusions[k].row = i}

Count(text, i) == Cardinality(EntriesOf(text, i))

\* C1: for every functional record with defined fd_mean and tsnr the list
\* holds one 'high' motion entry iff fd_mean > 0.9, one 'moderate' motion
\* entry iff 0.5 < fd_mean <= 0.9, one 'moderate' tSNR entry iff tsnr < 40,
\* and for every anatomical record one 'high' entry iff its snr is a number
\* below 8; the list holds no other entry.  So no record has both motion
\* entries, (0.95, 35) has exactly two entries and (0.3, 60) has none.
C1_ExclusionRules ==
    ExclusionsReturned =>
        /\ bold_df # None =>
            \A i \in 1..Len(bold_df.val) :
                LET r == bold_df.val[i]
                IN  r.fd_mean # NaN /\ r.tsnr # NaN =>
                    /\ Count("High motion", i) = IF r.fd_mean > 90 THEN 1 ELSE 0
                    /\ Count("Moderate motion", i) =
                            IF r.fd_mean > 50 /\ r.fd_mean <= 90 THEN 1 ELSE 0
                    /\ Count("Low tSNR", i) = IF r.tsnr < 40 THEN 1 ELSE 0
                    /\ Count("High motion", i) + Count("Moderate motion", i) <= 1
                    /\ (r.fd_mean = 95 /\ r.tsnr = 35 =>
                            Count("High motion", i) + Count("Moderate motion", i)
                                + Count("Low tSNR", i) = 2)
                    /\ (r.fd_mean = 30 /\ r.tsnr = 60 =>
                            Count("High motion", i) + Count("Moderate motion", i)
                                + Count("Low tSNR", i) = 0)
        /\ t1w_df # None =>
            \A i \in 1..Len(t1w_df.val) :
                LET r == t1w_df.val[i]
                IN  Count("Very low SNR", i) = IF r.snr # NaN /\ r.snr < 8 THEN 1 ELSE 0
        /\ \A k \in 1..Len(exclusions) :
            LET e == exclusions[k]
            IN  /\ e.reason.text \in BoldRules \cup {"Very low SNR"}
                /\ e.reason.text \in BoldRules =>
                    /\ bold_df # None
                    /\ e.row \in 1..Len(bold_df.val)
                    /\ e.subject_id = bold_df.val[e.row].subject_id
                    /\ e.session_id = bold_df.val[e.row].session_id
                    /\ e.severity = IF e.reason.text = "High motion"
                                        THEN "high" ELSE "moderate"
                    /\ e.reason.value = IF e.reason.text = "Low tSNR"
                                            THEN bold_df.val[e.row].tsnr
                                            ELSE bold_df.val[e.row].fd_mean
                /\ e.reason.text = "Very low SNR" =>
                    /\ t1w_df # None
                    /\ e.row \in 1..Len(t1w_df.val)
                    /\ e.subject_id = t1w_df.val[e.row].subject_id
                    /\ e.session_id = t1w_df.val[e.row].session_id
                    /\ e.severity = "high"
                    /\ e.reason.value = t1w_df.val[e.row].snr

\* a run over a (0.95, 35) record and a (0.3, 60) record: two entries, both
\* for the first
C1_Witness ==
    /\ qc_pc = "complete"
    /\ bold_df # None
    /\ \E i, j \in 1..Len(bold_df.val) :
        /\ bold_df.val[i].fd_mean = 95 /\ bold_df.val[i].tsnr = 35
        /\ bold_df.val[j].fd_mean = 30 /\ bold_df.val[j].tsnr = 60
        /\ Count("High motion", i) = 1 /\ Count("Low tSNR", i) = 1
        /\ Count("High motion", j) + Count("Moderate motion", j)
            + Count("Low tSNR", j) = 0
    /\ Len(exclusions) = 2

\* the place of a rule in the evaluation order
RuleRank(text) ==
    CASE text = "High motion" -> 1
      [] text = "Moderate motion" -> 2
      [] text = "Low tSNR" -> 3
      [] text = "Very low SNR" -> 4

\* C2: in the returned list every high-motion entry precedes every
\* moderate-motion entry, which precedes every low-tSNR entry, which precedes
\* every low-anatomical-SNR entry, and the entries of one rule are in the
\* order of the input records.
C2_RuleOrder ==
    ExclusionsReturned =>
        \A k, l \in 1..Len(exclusions) :
            k < l =>
                /\ RuleRank(exclusions[k].reason.text) <= RuleRank(exclusions[l].reason.text)
                /\ (exclusions[k].reason.text = exclusions[l].reason.text =>
                        exclusions[k].row < exclusions[l].row)

\* a list with entries of all four rules, two of them of one rule
C2_Witness ==
    /\ ExclusionsReturned
    /\ \A text \in BoldRules \cup {"Very low SNR"} :
        \E k \in 1..Len(exclusions) : exclusions[k].reason.text = text
    /\ \E k, l \in 1..Len(exclusions) :
        k # l /\ exclusions[k].reason.text = exclusions[l].reason.text

\* a step in which create_exclusion_list runs
ExclusionStep == qc_pc \in {"run", "t1w_done"} /\ qc_pc' \in {"called", "complete"}

\* C3: create_exclusion_list writes suggested_exclusions.csv (the whole list)
\* iff the list is non-empty; with an empty list, also when either or both
\* inputs are absent, qc_reports/ is left as it was.
C3_WriteIffNonEmpty ==
    [][ExclusionStep =>
        IF exclusions' # <<>>
            THEN /\ output_dir' = WriteFile(output_dir, "suggested_exclusions.csv", exclusions')
                 /\ qc_written' = qc_written \cup {"suggested_exclusions.csv"}
            ELSE /\ output_dir' = output_dir
                 /\ qc_written' = qc_written]_vars

\* called with both inputs absent: an empty list, and the file an earlier run
\* left is still the only content of qc_reports/
C3_Witness ==
    /\ qc_pc = "called"
    /\ bold_df = None /\ t1w_df = None
    /\ exclusions = <<>>
    /\ qc_written = {}
    /\ output_dir = StaleDir

\* run has returned
RunReturned == qc_pc \in {"complete", "returned"}

\* C4: bold_qc_summary.csv is written iff a functional file was found,
\* t1w_qc_summary.csv iff an anatomical file was found; with one modality
\* missing the other is still summarised and the exclusion list evaluated;
\* with the derivatives root absent the run returns after its warnings
\* having written no file; and a run never stops before it returns.
C4_ModalitiesIndependent ==
    /\ RunReturned =>
        /\ "bold_qc_summary.csv" \in qc_written <=> glob(mriqc_dir, "bold_files") # <<>>
        /\ "t1w_qc_summary.csv" \in qc_written <=> glob(mriqc_dir, "t1w_files") # <<>>
        /\ "bold_qc_summary.csv" \in qc_written =>
                output_dir["bold_qc_summary.csv"] = bold_df.val
        /\ "t1w_qc_summary.csv" \in qc_written =>
                output_dir["t1w_qc_summary.csv"] = t1w_df.val
        /\ (glob(mriqc_dir, "bold_files") # <<>> \/ glob(mriqc_dir, "t1w_files") # <<>>) =>
                /\ qc_pc = "complete"
                /\ \E k \in 1..Len(qc_console) :
                    qc_console[k] \in {"SUGGESTED EXCLUSIONS",
                        "No subjects flagged for exclusion based on QC metrics"}
        /\ ~mriqc_dir.exists =>
                /\ qc_pc = "returned"
                /\ qc_written = {}
                /\ output_dir \in {EmptyDict, StaleDir}
                /\ qc_console = <<"WARNING: No BOLD quality metrics found",
                                   "WARNING: No T1w quality metrics found",
                                   "ERROR: No quality metrics found!">>
    /\ qc_pc \in {"run", "loaded", "bold_done", "t1w_done"} => ENABLED QCNext

\* a run over a tree with anatomical files only: the T1w summary is written,
\* the exclusion list holds the low-SNR entry
C4_Witness ==
    /\ qc_pc = "complete"
    /\ bold_df = None
    /\ qc_written = {"t1w_qc_summary.csv", "suggested_exclusions.csv"}
    /\ Len(exclusions) = 1

\* a run with the derivatives root absent
C4_RootAbsentReached == qc_pc = "returned" /\ ~mriqc_dir.exists /\ qc_written = {}

(***************************************************************************)
(* Properties of the QC metric loaders                                     *)
(***************************************************************************)
\* the frames hold what the loaders returned
FramesLoaded == qc_pc \in {"loaded", "bold_done", "t1w_done", "complete", "returned"}

\* df holds one record per file, and field m of each record is the file's
\* value under key key_of[m], or the missing-value sentinel without that key
LoadedFrom(df, files, fields, key_of, ids) ==
    IF files = <<>> THEN df = None
    ELSE /\ df # None
         /\ Len(df.val) = Len(files)
         /\ \A i \in 1..Len(files) :
             /\ DOMAIN df.val[i] = Range(fields) \cup ids
             /\ \A m \in Range(fields) :
                 IF key_of[m] \in DOMAIN files[i]
                     THEN df.val[i][m] = files[i][key_of[m]]
                     ELSE df.val[i][m] = NaN /\ df.val[i][m] # 0

\* the key of an anatomical file that field m is read from
T1wSourceKey == [m \in Range(T1wKeys) |-> IF m = "snr" THEN "snr_total" ELSE m]

BoldLoadedKeyForKey ==
    LoadedFrom(bold_df, glob(mriqc_dir, "bold_files"), BoldKeys,
               [m \in Range(BoldKeys) |-> m],
               {"subject_id", "session_id", "task"})

\* C5 as stated: every field m of a record, functional or anatomical, is the
\* file's value under key m, or the sentinel (never zero) when the file has
\* no key m; unknown keys are ignored.
C5_FieldIsKey ==
    FramesLoaded =>
        /\ BoldLoadedKeyForKey
        /\ LoadedFrom(t1w_df, glob(mriqc_dir, "t1w_files"), T1wKeys,
                      [m \in Range(T1wKeys) |-> m],
                      {"subject_id", "session_id"})

\* C5 amended: as stated for the functional fields and for the anatomical
\* fields other than snr; the anatomical field snr is the file's value under
\* key snr_total (the sentinel without it), and a key snr of an anatomical
\* file is ignored.
C5_FieldIsSourceKey ==
    FramesLoaded =>
        /\ BoldLoadedKeyForKey
        /\ LoadedFrom(t1w_df, glob(mriqc_dir, "t1w_files"), T1wKeys, T1wSourceKey,
                      {"subject_id", "session_id"})

\* loaded: a functional file with an unknown key and a zero fd_mean but no
\* tsnr, and an anatomical file with snr_total and with no key snr
C5_Witness ==
    /\ qc_pc = "loaded"
    /\ bold_df # None /\ t1w_df # None
    /\ "fd_max" \in DOMAIN mriqc_dir.bold_files[1]
    /\ "tsnr" \notin DOMAIN mriqc_dir.bold_files[1]
    /\ bold_df.val[1].tsnr = NaN
    /\ bold_df.val[1].fd_mean = 0
    /\ "snr" \notin DOMAIN mriqc_dir.t1w_files[1]
    /\ "snr_total" \in DOMAIN mriqc_dir.t1w_files[1]
    /\ t1w_df.val[1].snr = mriqc_dir.t1w_files[1]["snr_total"]

(***************************************************************************)
(* example_analysis.py: PostPreprocessingAnalysis                          *)
(*                                                                         *)
(* A file of func/ is named by its run number; the paths of one role sort  *)
(* as their run numbers do.  A confound table is its header (the column    *)
(* names in file order) and its columns.  What the imaging library returns *)
(* is a record of what it was computed from.                               *)
(***************************************************************************)
\* self.subject_dir for the arguments main passes
subject_dir == <<"derivatives/fmriprep", "sub-01", "ses-01", "func">>

\* list(subject_dir.glob(pattern)): the matching files in the order the
\* filesystem enumerates them, which is any order
Orderings(S) ==
    {q \in [1..Cardinality(S) -> S] : \A i, j \in DOMAIN q : i # j => q[i] # q[j]}

\* the default confound_names of load_confounds
DEFAULT_CONFOUNDS ==
    <<"trans_x", "trans_y", "trans_z", "rot_x", "rot_y", "rot_z",
      "framewise_displacement", "csf", "white_matter", "global_signal">>

\* confounds.fillna(0) on one cell
fillna(x) == IF x = NaN THEN 0 ELSE x

\* the columns taken in the order of the table, not of the request
available_table_order(table, confound_names) ==
    LET names == IF confound_names = None THEN DEFAULT_CONFOUNDS ELSE confound_names.val
    IN  SelectSeq(table.header, LAMBDA c : c \in Range(names))

\* available_confounds of load_confounds: the requested names found in the
\* header, in the order requested
available(table, confound_names) ==
    LET names == IF confound_names = None THEN DEFAULT_CONFOUNDS ELSE confound_names.val
    IN  SelectSeq(names, LAMBDA c : c \in Range(table.header))

\* confounds_df[available_confounds].fillna(0).values: rows of cells
confound_values(table, cols) ==
    [r \in 1..table.nrows |-> [j \in 1..Len(cols) |-> fillna(table.data[cols[j]][r])]]

\* load_confounds without its early return: an array without columns
load_confounds_no_sentinel(table, confound_names) ==
    Some(confound_values(table, available(table, confound_names)))

\* what load_confounds returns: None without any requested column
load_confounds(table, confound_names) ==
    LET cols == available(table, confound_names)
    IN  IF cols = <<>> THEN None ELSE Some(confound_values(table, cols))

\* what load_confounds prints
confound_messages(table, confound_names) ==
    LET cols == available(table, confound_names)
    IN  IF cols = <<>> THEN <<"No standard confounds found">>
        ELSE <<"Selected confounds:">> \o cols

\* mask_img of apply_confound_regression
mask_img(obj, bold_img) ==
    IF obj.mask_file # None
        THEN [source |-> "nib.load", of |-> obj.mask_file.val]
        ELSE [source |-> "masking.compute_epi_mask", of |-> bold_img.file]

\* image.clean_img(...) as apply_confound_regression calls it
clean_img(obj, bold_img, confounds) ==
    [img |-> bold_img, confounds |-> confounds, standardize |-> TRUE,
     detrend |-> TRUE, low_pass |-> "0.1", high_pass |-> "0.01",
     t_r |-> "header.get_zooms()[3]", mask_img |-> mask_img(obj, bold_img)]

\* the atlases extract_roi_timeseries knows
ATLASES == {"aal", "harvard_oxford"}

atlas_labels(atlas) == <<atlas, "region 1", "region 2">>

\* what can go wrong inside the try block of extract_roi_timeseries
RoiFailures == {"none", "import datasets", "fetch_atlas", "fit_transform"}

\* extract_roi_timeseries without its except clause
extract_roi_timeseries_unguarded(cleaned_img, atlas, failure) ==
    IF failure = "import datasets"
        THEN [timeseries |-> None, labels |-> None, raised |-> TRUE, printed |-> ""]
    ELSE IF atlas \notin ATLASES
        THEN [timeseries |-> None, labels |-> None, raised |-> FALSE,
              printed |-> "Atlas not implemented"]
    ELSE IF failure # "none"
        THEN [timeseries |-> None, labels |-> None, raised |-> TRUE, printed |-> ""]
    ELSE [timeseries |-> Some([img |-> cleaned_img, atlas |-> atlas]),
          labels |-> Some(atlas_labels(atlas)), raised |-> FALSE,
          printed |-> "Extracted ROIs"]

\* extract_roi_timeseries(cleaned_img, atlas) when the library fails as
\* failure says: the pair it returns, what it prints, whether it raises
extract_roi_timeseries(cleaned_img, atlas, failure) ==
    IF failure = "import datasets"
        THEN [timeseries |-> None, labels |-> None, raised |-> FALSE,
              printed |-> "Error extracting ROI timeseries"]
    ELSE IF atlas \notin ATLASES
        THEN [timeseries |-> None, labels |-> None, raised |-> FALSE,
              printed |-> "Atlas not implemented"]
    ELSE IF failure # "none"
        THEN [timeseries |-> None, labels |-> None, raised |-> FALSE,
              printed |-> "Error extracting ROI timeseries"]
    ELSE [timeseries |-> Some([img |-> cleaned_img, atlas |-> atlas]),
          labels |-> Some(atlas_labels(atlas)), raised |-> FALSE,
          printed |-> "Extracted ROIs"]

\* ConnectivityMeasure(kind).fit_transform([timeseries])[0]
compute_connectivity(timeseries, kind) == [timeseries |-> timeseries, kind |-> kind]

\* the artifacts of save_results in the order it writes them
ARTIFACTS ==
    <<"sub-01_timeseries.npy", "sub-01_connectivity.npy", "sub-01_labels.txt",
      "sub-01_connectivity.csv">>

\* the content save_results gives artifact a
artifact_content(a, timeseries, connectivity_matrix, labels) ==
    CASE a = ARTIFACTS[1] -> [data |-> timeseries, whole |-> TRUE]
      [] a = ARTIFACTS[2] -> [data |-> connectivity_matrix, whole |-> TRUE]
      [] a = ARTIFACTS[3] ->
            [data |-> [i \in 1..Len(labels) |-> <<i - 1, labels[i]>>], whole |-> TRUE]
      [] a = ARTIFACTS[4] ->
            [data |-> [matrix |-> connectivity_matrix, columns |-> labels,
                       index |-> labels],
             whole |-> TRUE]

\* save_results when mkdir succeeds and the writes in fails raise: the writes
\* run in order and the first that raises ends the method
save_results(fails) ==
    LET bad  == {i \in 1..Len(ARTIFACTS) : ARTIFACTS[i] \in fails}
        stop == IF bad = {} THEN Len(ARTIFACTS) + 1
                ELSE CHOOSE i \in bad : \A j \in bad : i <= j
    IN  [attempted |-> SubSeq(ARTIFACTS, 1, IF bad = {} THEN Len(ARTIFACTS) ELSE stop),
         written   |-> SubSeq(ARTIFACTS, 1, stop - 1),
         raised    |-> bad # {}]

(***************************************************************************)
(* example_analysis.py: main, one action per call it makes, and direct     *)
(* calls of load_confounds and extract_roi_timeseries                      *)
(***************************************************************************)
\* an exception leaves the try block of main: the handler prints it and main
\* returns
Raise(type, text, dir) ==
    /\ an_pc' = "exited"
    /\ outcome' = [kind |-> "error", error |-> [type |-> type, text |-> text, dir |-> dir]]
    /\ an_console' = an_console \o <<"Error: " \o text, "Please ensure:">>

\* main up to its try block
MainStart ==
    /\ an_pc = "main"
    /\ IF ~fs.exists
          THEN /\ an_pc' = "exited"
               /\ outcome' = [kind |-> "guidance", error |-> NoError]
               /\ an_console' = an_console \o <<"fMRIPrep directory not found">>
          ELSE /\ an_pc' = "construct"
               /\ UNCHANGED <<outcome, an_console>>
    /\ UNCHANGED <<fs, self, run, call, analysis_outputs, attempted, qc_vars>>

\* __init__ raising for an empty mask list as well
init_failure_mask_mandatory(bold_files, confounds_files, mask_files) ==
    IF bold_files = <<>> THEN "No preprocessed BOLD files found in"
    ELSE IF confounds_files = <<>> THEN "No confounds file found in"
    ELSE IF mask_files = <<>> THEN "No brain mask found in"
    ELSE ""

\* the message of the FileNotFoundError __init__ raises for these glob
\* results, "" when it raises none
init_failure(bold_files, confounds_files, mask_files) ==
    IF bold_files = <<>> THEN "No preprocessed BOLD files found in"
    ELSE IF confounds_files = <<>> THEN "No confounds file found in"
    ELSE ""

\* PostPreprocessingAnalysis.__init__
Construct ==
    /\ an_pc = "construct"
    /\ \E bold_files \in Orderings(fs.bold),
          confounds_files \in Orderings(fs.confounds),
          mask_files \in Orderings(fs.mask) :
            IF init_failure(bold_files, confounds_files, mask_files) # ""
                THEN /\ Raise("FileNotFoundError",
                              init_failure(bold_files, confounds_files, mask_files),
                              subject_dir)
                     /\ UNCHANGED self
            ELSE /\ self' = [bold_file |-> Some(bold_files[1]),
                             confounds_file |-> Some(confounds_files[1]),
                             mask_file |-> IF mask_files # <<>>
                                              THEN Some(mask_files[1]) ELSE None]
                 /\ an_console' = an_console \o <<"Initialized analysis">>
                 /\ an_pc' = "constructed"
                 /\ UNCHANGED outcome
    /\ UNCHANGED <<fs, run, call, analysis_outputs, attempted, qc_vars>>

\* load_data; nib.load may raise
LoadData ==
    /\ an_pc = "constructed"
    /\ \E ok \in BOOLEAN :
        IF ok
            THEN /\ run' = [run EXCEPT !.bold_img = Some([file |-> self.bold_file.val])]
                 /\ an_pc' = "load_confounds"
                 /\ UNCHANGED <<outcome, an_console>>
            ELSE /\ Raise("Exception", "nib.load", <<>>)
                 /\ UNCHANGED run
    /\ UNCHANGED <<fs, self, call, analysis_outputs, attempted, qc_vars>>

\* confounds = self.load_confounds(); pd.read_csv may raise
LoadConfounds ==
    /\ an_pc = "load_confounds"
    /\ \E ok \in BOOLEAN :
        IF ok
            THEN LET table == fs.tables[self.confounds_file.val]
                 IN  /\ run' = [run EXCEPT
                                  !.confounds = load_confounds(table, None),
                                  !.available_confounds = available(table, None)]
                     /\ an_console' = an_console \o confound_messages(table, None)
                     /\ an_pc' = "apply_confound_regression"
                     /\ UNCHANGED outcome
            ELSE /\ Raise("Exception", "pd.read_csv", <<>>)
                 /\ UNCHANGED run
    /\ UNCHANGED <<fs, self, call, analysis_outputs, attempted, qc_vars>>

\* cleaned_img = self.apply_confound_regression(confounds); the library may raise
ApplyConfoundRegression ==
    /\ an_pc = "apply_confound_regression"
    /\ \E ok \in BOOLEAN :
        IF ok
            THEN /\ run' = [run EXCEPT !.cleaned_img =
                                Some(clean_img(self, run.bold_img.val, run.confounds))]
                 /\ an_console' = an_console \o
                        (IF self.mask_file = None THEN <<"Creating mask from data...">>
                         ELSE <<>>) \o <<"Signal cleaned">>
                 /\ an_pc' = "extract_roi_timeseries"
                 /\ UNCHANGED outcome
            ELSE /\ Raise("Exception", "image.clean_img", <<>>)
                 /\ UNCHANGED run
    /\ UNCHANGED <<fs, self, call, analysis_outputs, attempted, qc_vars>>

\* run_complete_analysis's test of the ROI result
roi_available(timeseries) == timeseries # None

\* timeseries, labels = self.extract_roi_timeseries(cleaned_img, atlas='aal'),
\* and the test that follows it
ExtractRoi ==
    /\ an_pc = "extract_roi_timeseries"
    /\ \E failure \in RoiFailures :
        LET r == extract_roi_timeseries(run.cleaned_img.val, "aal", failure)
        IN  IF r.raised
                THEN /\ Raise("Exception", "extract_roi_timeseries", <<>>)
                     /\ UNCHANGED run
            ELSE /\ run' = [run EXCEPT !.timeseries = r.timeseries, !.labels = r.labels]
                 /\ IF roi_available(r.timeseries)
                       THEN /\ an_pc' = "compute_connectivity"
                            /\ an_console' = an_console \o <<r.printed>>
                            /\ UNCHANGED outcome
                       ELSE /\ an_pc' = "exited"
                            /\ an_console' = an_console \o
                                <<r.printed,
                                  "Analysis incomplete - could not extract time series">>
                            /\ outcome' = [kind |-> "incomplete", error |-> NoError]
    /\ UNCHANGED <<fs, self, call, analysis_outputs, attempted, qc_vars>>

\* connectivity_matrix = self.compute_connectivity(timeseries); the library may raise
ComputeConnectivity ==
    /\ an_pc = "compute_connectivity"
    /\ \E ok \in BOOLEAN :
        IF ok
            THEN /\ run' = [run EXCEPT !.connectivity_matrix =
                                Some(compute_connectivity(run.timeseries.val, "correlation"))]
                 /\ an_console' = an_console \o <<"Computing correlation connectivity">>
                 /\ an_pc' = "save_results"
                 /\ UNCHANGED outcome
            ELSE /\ Raise("Exception", "ConnectivityMeasure", <<>>)
                 /\ UNCHANGED run
    /\ UNCHANGED <<fs, self, call, analysis_outputs, attempted, qc_vars>>

\* analysis_outputs/ after the writes done: the files written whole, and what
\* the write that raised left behind (nothing, or a truncated file)
outputs_after(dir, done, tried, truncated) ==
    LET left == IF truncated /\ Len(tried) > Len(done) THEN {tried[Len(tried)]} ELSE {}
    IN  [a \in DOMAIN dir \cup Range(done) \cup left |->
            IF a \in Range(done)
                THEN artifact_content(a, run.timeseries.val,
                                      run.connectivity_matrix.val, run.labels.val)
            ELSE IF a \in left THEN [data |-> <<>>, whole |-> FALSE]
            ELSE dir[a]]

\* output_path = self.save_results(timeseries, connectivity_matrix, labels);
\* mkdir and each of the writes may raise
SaveResults ==
    /\ an_pc = "save_results"
    /\ \E mkdir_ok \in BOOLEAN, fails \in SUBSET Range(ARTIFACTS), truncated \in BOOLEAN :
        IF ~mkdir_ok
            THEN /\ Raise("Exception", "mkdir", <<>>)
                 /\ UNCHANGED <<analysis_outputs, attempted>>
        ELSE LET r == save_results(fails)
             IN  /\ attempted' = r.attempted
                 /\ analysis_outputs' =
                        outputs_after(analysis_outputs, r.written, r.attempted, truncated)
                 /\ IF r.raised
                       THEN Raise("Exception", "write", <<>>)
                       ELSE /\ an_pc' = "exited"
                            /\ outcome' = [kind |-> "complete", error |-> NoError]
                            /\ an_console' = an_console \o <<"Analysis Complete!">>
    /\ UNCHANGED <<fs, self, run, call, qc_vars>>

(***************************************************************************)
(* Inputs of the analysis pipeline                                         *)
(***************************************************************************)
\* the most files of func/ that match the pattern of one role
MaxCandidates == 2

\* the rows of a confound table
TableRows == 2

\* the most columns of a confound table, and the most names a caller requests
MaxCols == 3

MaxRequested == 2

\* the sequences over S of at most n members, none repeated
InjectiveSeqs(S, n) ==
    {q \in SeqUpTo(S, n) : \A i, j \in DOMAIN q : i # j => q[i] # q[j]}

ColumnNames == DEFAULT_CONFOUNDS \o <<"a_comp_cor_00">>

\* a table with header h whose cells each hold a value of their own, but for
\* the first-row cells of the columns in missing, which are empty
Table(h, missing) ==
    [header |-> h,
     nrows  |-> TableRows,
     data   |-> [c \in Range(h) |->
                    [r \in 1..TableRows |->
                        IF r = 1 /\ c \in missing THEN NaN
                        ELSE 10 * (CHOOSE i \in 1..Len(ColumnNames) : ColumnNames[i] = c) + r]]]

\* tables for the pipeline: three standard columns, no standard column, and
\* columns out of the default order with the first displacement missing
PipelineTables ==
    {Table(<<"trans_x", "rot_z", "csf">>, {"rot_z"}),
     Table(<<"a_comp_cor_00">>, {}),
     Table(<<"csf", "framewise_displacement", "trans_x">>, {"framewise_displacement"})}

\* tables for load_confounds: every header of up to MaxCols of four names,
\* in every order, without and with missing first-row cells
SelectorTables ==
    {Table(h, missing) :
        h \in InjectiveSeqs({"trans_x", "rot_z", "csf", "a_comp_cor_00"}, MaxCols),
        missing \in {{}, {"trans_x", "csf"}, {"rot_z", "a_comp_cor_00"}}}

\* the confound_names a caller of load_confounds passes: the default, or a
\* list of up to MaxRequested names (repeats and unknown names included)
RequestedNames ==
    {None} \cup {Some(q) : q \in SeqUpTo({"csf", "trans_x", "rot_z", "global_signal",
                                          "a_comp_cor_00"}, MaxRequested)}

\* the atlas a caller of extract_roi_timeseries passes
AtlasNames == ATLASES \cup {"unknown_atlas"}

\* a caller other than main: load_confounds(confound_names) on the object
CallLoadConfounds ==
    /\ an_pc = "constructed"
    /\ \E confound_names \in RequestedNames :
        LET table == fs.tables[self.confounds_file.val]
        IN  /\ run' = [run EXCEPT
                         !.confounds = load_confounds(table, confound_names),
                         !.available_confounds = available(table, confound_names)]
            /\ an_console' = an_console \o confound_messages(table, confound_names)
            /\ call' = Some([method |-> "load_confounds", confound_names |-> confound_names])
    /\ an_pc' = "called"
    /\ UNCHANGED <<fs, self, analysis_outputs, attempted, outcome, qc_vars>>

\* a caller other than main: extract_roi_timeseries(img, atlas) on the object
CallExtractRoi ==
    /\ an_pc = "constructed"
    /\ \E atlas \in AtlasNames, failure \in RoiFailures :
        LET img == clean_img(self, [file |-> self.bold_file.val], None)
            r   == extract_roi_timeseries(img, atlas, failure)
        IN  /\ call' = Some([method |-> "extract_roi_timeseries", atlas |-> atlas,
                             failure |-> failure, result |-> r])
            /\ an_console' = an_console \o <<r.printed>>
    /\ an_pc' = "called"
    /\ UNCHANGED <<fs, self, run, analysis_outputs, attempted, outcome, qc_vars>>

AnalysisNext ==
    \/ MainStart
    \/ Construct
    \/ LoadData
    \/ LoadConfounds
    \/ ApplyConfoundRegression
    \/ ExtractRoi
    \/ ComputeConnectivity
    \/ SaveResults
    \/ CallLoadConfounds
    \/ CallExtractRoi

\* main is entered; func/ holds up to nf files per role, each confounds file
\* a table of Tables
AnalysisInitWith(Tables, Candidates) ==
    /\ \E exists \in BOOLEAN :
        \E B \in Candidates, C \in Candidates, M \in SUBSET (1..MaxCandidates) :
            \E T \in [C -> Tables] :
                /\ (~exists => B = {} /\ C = {} /\ M = {})
                /\ fs = [exists |-> exists, bold |-> B, confounds |-> C, mask |-> M,
                         tables |-> T]
    /\ an_pc = "main"
    /\ self = NoSelf
    /\ run = NoLocals
    /\ call = None
    /\ analysis_outputs = EmptyDict
    /\ attempted = <<>>
    /\ an_console = <<>>
    /\ outcome = NoOutcome
    /\ QCIdle

AnalysisInit == AnalysisInitWith(PipelineTables, SUBSET (1..MaxCandidates))

AnalysisSpec == AnalysisInit /\ [][AnalysisNext]_vars

\* load_confounds over the tables of SelectorTables: one file per mandatory role
SelectorInit == AnalysisInitWith(SelectorTables, {{}, {1}})

SelectorSpec == SelectorInit /\ [][AnalysisNext]_vars

(***************************************************************************)
(* Properties of the analysis pipeline                                     *)
(***************************************************************************)
\* C6: the four artifact writes of save_results are independent: whichever
\* of them fail, each of the others is still attempted (so once save_results
\* has begun to write, all four writes are attempted), and the artifacts
\* already written whole stay on disk.
C6_WritesIndependent ==
    attempted # <<>> =>
        /\ attempted = ARTIFACTS
        /\ \A a \in DOMAIN analysis_outputs :
            analysis_outputs[a].whole =>
                analysis_outputs[a] = artifact_content(a, run.timeseries.val,
                                        run.connectivity_matrix.val, run.labels.val)

\* the part of C6 the code keeps: the writes run in the order of ARTIFACTS up
\* to the first that raises, and the artifacts written before it stay on disk
C6_WritesUpToFirstFailure ==
    attempted # <<>> =>
        /\ \E n \in 1..Len(ARTIFACTS) : attempted = SubSeq(ARTIFACTS, 1, n)
        /\ \A i \in 1..Len(attempted) - 1 :
            /\ attempted[i] \in DOMAIN analysis_outputs
            /\ analysis_outputs[attempted[i]].whole

\* extract_roi_timeseries has returned to a direct caller
RoiCalled == call # None /\ call.val.method = "extract_roi_timeseries"

\* C7: for an atlas outside {'aal', 'harvard_oxford'}, or with any failure in
\* the atlas fetch or the reduction, extract_roi_timeseries returns
\* (None, None) and does not raise; and whenever the ROI result is null the
\* pipeline runs neither compute_connectivity nor save_results, writes no
\* file, and returns normally.
C7_NullRoiResult ==
    /\ RoiCalled =>
        /\ ~call.val.result.raised
        /\ (call.val.atlas \notin {"aal", "harvard_oxford"} \/ call.val.failure # "none") =>
                call.val.result.timeseries = None /\ call.val.result.labels = None
    /\ run.timeseries = None =>
        /\ run.connectivity_matrix = None
        /\ attempted = <<>>
        /\ analysis_outputs = EmptyDict
        /\ an_pc \notin {"compute_connectivity", "save_results"}
    /\ (an_pc = "exited" /\ run.cleaned_img # None /\ run.timeseries = None) =>
        /\ outcome.kind = "incomplete"
        /\ run.labels = None
    /\ outcome.kind = "error" => outcome.error.text # "extract_roi_timeseries"

\* the pipeline has ended on a null ROI result, nothing written
C7_Witness ==
    /\ an_pc = "exited"
    /\ outcome.kind = "incomplete"
    /\ run.cleaned_img # None
    /\ run.timeseries = None
    /\ analysis_outputs = EmptyDict

\* a direct call with an unknown atlas has returned the null result
C7_UnknownAtlasReached ==
    /\ RoiCalled
    /\ call.val.atlas = "unknown_atlas"
    /\ call.val.result.timeseries = None
    /\ ~call.val.result.raised

\* the members of q that are in S, in the order of q
RECURSIVE Keep(_, _)
Keep(q, S) ==
    IF q = <<>> THEN <<>>
    ELSE (IF Head(q) \in S THEN <<Head(q)>> ELSE <<>>) \o Keep(Tail(q), S)

\* load_confounds has returned, to main or to a direct caller
ConfoundsCalled == call # None /\ call.val.method = "load_confounds"

ConfoundsReturned ==
    \/ an_pc = "called" /\ ConfoundsCalled
    \/ an_pc \in {"apply_confound_regression", "extract_roi_timeseries",
                  "compute_connectivity", "save_results"}

\* the names load_confounds was asked for
Requested ==
    IF ConfoundsCalled /\ call.val.confound_names # None
        THEN call.val.confound_names.val
        ELSE <<"trans_x", "trans_y", "trans_z", "rot_x", "rot_y", "rot_z",
               "framewise_displacement", "csf", "white_matter", "global_signal">>

ConfoundTable == fs.tables[self.confounds_file.val]

\* C8: the columns load_confounds returns are exactly the requested names
\* that occur in the header, in the order requested, with missing cells
\* filled with 0; the selected count never exceeds the requested count and
\* every selected column is in the header; for the header
\* [trans_x, rot_z, csf] and the default list they are those three.
C8_SelectedInRequestOrder ==
    ConfoundsReturned =>
        LET sel == run.available_confounds
        IN  /\ sel = Keep(Requested, Range(ConfoundTable.header))
            /\ Len(sel) <= Len(Requested)
            /\ \A j \in 1..Len(sel) : sel[j] \in Range(ConfoundTable.header)
            /\ (sel = <<>>) => run.confounds = None
            /\ (sel # <<>>) =>
                /\ run.confounds # None
                /\ Len(run.confounds.val) = ConfoundTable.nrows
                /\ \A r \in 1..ConfoundTable.nrows :
                    /\ Len(run.confounds.val[r]) = Len(sel)
                    /\ \A j \in 1..Len(sel) :
                        LET cell == ConfoundTable.data[sel[j]][r]
                        IN  run.confounds.val[r][j] = IF cell = NaN THEN 0 ELSE cell
            /\ (ConfoundTable.header = <<"trans_x", "rot_z", "csf">>
                    /\ ~(ConfoundsCalled /\ call.val.confound_names # None)) =>
                sel = <<"trans_x", "rot_z", "csf">>

\* the default list on the header [trans_x, rot_z, csf] with missing cells
\* under trans_x and csf: three columns, the missing cells 0
C8_Witness ==
    /\ an_pc = "apply_confound_regression"
    /\ ConfoundTable.header = <<"trans_x", "rot_z", "csf">>
    /\ ConfoundTable.data["trans_x"][1] = NaN
    /\ run.available_confounds = <<"trans_x", "rot_z", "csf">>
    /\ run.confounds # None
    /\ run.confounds.val[1][1] = 0
    /\ run.confounds.val[1][2] = ConfoundTable.data["rot_z"][1]
    /\ run.confounds.val[1][3] = 0

\* none of the default names is a column of the table main reads
NoDefaultConfound ==
    \A c \in Range(ConfoundTable.header) :
        c \notin {"trans_x", "trans_y", "trans_z", "rot_x", "rot_y", "rot_z",
                  "framewise_displacement", "csf", "white_matter", "global_signal"}

\* C9: when no requested name is in the table, load_confounds returns None
\* and raises nothing, and the pipeline goes on: the step of load_confounds
\* leads to signal conditioning, which is given no confounds and leads to
\* the ROI reduction (unless the library itself raises).
C9_NoConfoundsNoAbort ==
    [][/\ (an_pc = "load_confounds" /\ NoDefaultConfound /\ outcome'.error.text # "pd.read_csv") =>
            /\ run'.confounds = None
            /\ an_pc' = "apply_confound_regression"
            /\ outcome' = outcome
       /\ (an_pc = "apply_confound_regression" /\ run.confounds = None
                /\ outcome'.error.text # "image.clean_img") =>
            /\ run'.cleaned_img # None
            /\ run'.cleaned_img.val.confounds = None
            /\ an_pc' = "extract_roi_timeseries"
            /\ outcome' = outcome]_vars

\* the pipeline has completed without confounds: cleaned with none, all four
\* artifacts written
C9_Witness ==
    /\ an_pc = "exited"
    /\ outcome.kind = "complete"
    /\ NoDefaultConfound
    /\ run.confounds = None
    /\ run.cleaned_img.val.confounds = None
    /\ run.connectivity_matrix # None
    /\ DOMAIN analysis_outputs = Range(ARTIFACTS)

\* __init__ has run
PastConstruct == fs.exists /\ an_pc \notin {"main", "construct"}

\* C10: __init__ raises the missing-input error, which names the searched
\* directory, iff there is no candidate for the functional scan or for the
\* confounds table; then no stage runs, nothing is written, and main prints
\* the error and returns.  No candidate for the mask never fails: the mask
\* is recorded as absent and the conditioner derives one from the scan.
C10_MissingInput ==
    /\ PastConstruct =>
        /\ outcome.error.type = "FileNotFoundError" <=> (fs.bold = {} \/ fs.confounds = {})
        /\ outcome.error.type = "FileNotFoundError" =>
            /\ outcome.error.dir = <<"derivatives/fmriprep", "sub-01", "ses-01", "func">>
            /\ outcome.kind = "error"
            /\ an_pc = "exited"
            /\ self = NoSelf
            /\ run = NoLocals
            /\ call = None
            /\ attempted = <<>>
            /\ analysis_outputs = EmptyDict
            /\ \E k \in 1..Len(an_console) :
                an_console[k] \in {"Error: No preprocessed BOLD files found in",
                                   "Error: No confounds file found in"}
        /\ (outcome.error.type # "FileNotFoundError" /\ fs.mask = {}) =>
            /\ self.mask_file = None
            /\ self.bold_file # None
            /\ run.cleaned_img # None =>
                    run.cleaned_img.val.mask_img =
                        [source |-> "masking.compute_epi_mask", of |-> self.bold_file.val]
    /\ an_pc \in {"main", "construct"} => ENABLED AnalysisNext

\* a confounds table but no functional scan: the error is reported, main has
\* returned, nothing ran
C10_Witness ==
    /\ an_pc = "exited"
    /\ fs.bold = {} /\ fs.confounds # {}
    /\ outcome.kind = "error"
    /\ outcome.error.type = "FileNotFoundError"
    /\ run = NoLocals
    /\ analysis_outputs = EmptyDict

\* no mask file: the scan was cleaned under a mask derived from it
C10_DerivedMaskReached ==
    /\ fs.mask = {}
    /\ run.cleaned_img # None
    /\ run.cleaned_img.val.mask_img.source = "masking.compute_epi_mask"

\* C12: a record whose metric is the missing-value sentinel triggers no rule
\* on that metric: a functional record with missing fd_mean has no motion
\* entry, with missing tsnr no low-tSNR entry, and an anatomical record with
\* missing snr no low-SNR entry.
C12_MissingNeverTriggers ==
    ExclusionsReturned =>
        /\ bold_df # None =>
            \A i \in 1..Len(bold_df.val) :
                /\ bold_df.val[i].fd_mean = NaN =>
                    Count("High motion", i) + Count("Moderate motion", i) = 0
                /\ bold_df.val[i].tsnr = NaN => Count("Low tSNR", i) = 0
        /\ t1w_df # None =>
            \A i \in 1..Len(t1w_df.val) :
                t1w_df.val[i].snr = NaN => Count("Very low SNR", i) = 0

\* the list was built from a functional file without fd_mean and tsnr and an
\* anatomical file without snr_total, and it is empty
C12_Witness ==
    /\ ExclusionsReturned
    /\ bold_df # None /\ t1w_df # None
    /\ Len(mriqc_dir.bold_files) = 1 /\ Len(bold_df.val) = 1
    /\ "fd_mean" \notin DOMAIN mriqc_dir.bold_files[1]
    /\ "tsnr" \notin DOMAIN mriqc_dir.bold_files[1]
    /\ bold_df.val[1].fd_mean = NaN /\ bold_df.val[1].tsnr = NaN
    /\ "snr_total" \notin DOMAIN mriqc_dir.t1w_files[1]
    /\ t1w_df.val[1].snr = NaN
    /\ exclusions = <<>>

\* the path of S that sorts first (paths of one role sort as their run numbers)
First(S) == CHOOSE f \in S : \A g \in S : f <= g

\* __init__ has returned an object
Constructed == self.bold_file # None

\* C11: when several files match the filter of one role, __init__ picks the
\* lexicographically first matching path, whatever the order in which the
\* filesystem enumerates them, and raises no ambiguity error.
C11_PicksFirstPath ==
    Constructed =>
        /\ self.bold_file.val = First(fs.bold)
        /\ self.confounds_file.val = First(fs.confounds)
        /\ fs.mask # {} => self.mask_file = Some(First(fs.mask))
        /\ outcome.error.type # "FileNotFoundError"

\* the part of C11 the code keeps: each path picked is one of the candidates
\* of its role, and several candidates are no error
C11_PicksSomeCandidate ==
    Constructed =>
        /\ self.bold_file.val \in fs.bold
        /\ self.confounds_file.val \in fs.confounds
        /\ fs.mask # {} => self.mask_file # None /\ self.mask_file.val \in fs.mask
        /\ fs.mask = {} => self.mask_file = None
        /\ outcome.error.type # "FileNotFoundError"

\* two functional scans, and the object holds the one that sorts last
C11_LastPathReached ==
    /\ Constructed
    /\ Cardinality(fs.bold) > 1
    /\ self.bold_file.val # First(fs.bold)

====
